---- MODULE Spec2Model ----
(***************************************************************************)
(* Model of scrapper.py: the text normalisers (clean_price,                *)
(* extract_property_details), the selector fallback (find_selector), the   *)
(* per-page card loop (scrape_page), the page loop and the result          *)
(* post-processing (run) and the command-line entry point (__main__).      *)
(*                                                                         *)
(* Text is a sequence of one-character strings.  Python's None is the      *)
(* record None for numbers and the sequence NoneStr for strings.           *)
(***************************************************************************)
EXTENDS Integers, Sequences, FiniteSets, TLC

VARIABLES
    pc,         \* position of the process: see Init
    max_pages,  \* EmlakjetScraper.max_pages
    page,       \* loop variable of run()
    visited,    \* history: page numbers passed to scrape_page, in call order
    failedPages,\* history: pages whose load raised and was caught
    cards,      \* scrape_page: the element list being processed
    direct,     \* history: the element list of the direct discovery attempt
    lookups,    \* history: number of find_selector calls made on this page
    idx,        \* scrape_page: number of cards whose loop body has run
    count,      \* scrape_page: local counter `count`
    returned,   \* history: last value returned by scrape_page (-1: none yet)
    nPriced,    \* history: cards of this page whose price text was read
    nFailed,    \* history: cards of this page whose body raised an Exception
    pageStart,  \* history: Len(data) when scrape_page was entered
    data,       \* EmlakjetScraper.data, the run accumulator
    output,     \* rows of emlakjet_<ts>.csv, NoFile when not written
    partial,    \* rows of emlakjet_partial_<ts>.csv, NoFile when not written
    sigints,    \* history: number of KeyboardInterrupts delivered
    swallowed,  \* history: number of those caught by a bare `except:`
    traced,     \* history: traceback.print_exc() ran in __main__
    exitCode,   \* process exit status, -1 while running
    arg,        \* argument of the pure function under test
    res         \* its result

vars == <<pc, max_pages, page, visited, failedPages, cards, direct, lookups, idx, count,
          returned, nPriced, nFailed, pageStart, data, output, partial, sigints,
          swallowed, traced, exitCode, arg, res>>

runVars == <<pc, max_pages, page, visited, failedPages,
             cards, direct, lookups, idx, count,
             returned, nPriced, nFailed, pageStart, data, output, partial, sigints,
             swallowed, traced, exitCode>>

-----------------------------------------------------------------------------
(* Bounds of the model *)

MaxPages == 2       \* max_pages ranges over 1..MaxPages
MaxCards == 3       \* a lookup of a card selector finds at most MaxCards
MaxData == 4        \* listings the site holds over all its pages
MaxSigints == 1     \* KeyboardInterrupts delivered to one run
MaxPriceLen == 4    \* length of the enumerated price texts
MaxAreaLen == 7     \* length of the enumerated detail texts
MaxMatch == 3       \* elements one candidate finds when find_selector is tried alone
MaxRows == 3        \* records in the accumulator when the saving is tried alone

-----------------------------------------------------------------------------
(* Python values *)

None == [kind |-> "None"]
NoneStr == <<"None">>
NoFile == <<[kind |-> "no file"]>>
Float(n, s) == [kind |-> "float", num |-> n, scale |-> s]
Raised(e) == [kind |-> "raise", exc |-> e]

Digits == {"0", "1", "2", "3", "4", "5", "6", "7", "8", "9"}
Whitespace == {" "}

DigitVal(c) ==
    CASE c = "0" -> 0 [] c = "1" -> 1 [] c = "2" -> 2 [] c = "3" -> 3
      [] c = "4" -> 4 [] c = "5" -> 5 [] c = "6" -> 6 [] c = "7" -> 7
      [] c = "8" -> 8 [] c = "9" -> 9

\* str.lower() on the characters the model uses
LowerChar(c) ==
    CASE c = "M" -> "m" [] c = "K" -> "k" [] c = "T" -> "t" [] c = "L" -> "l"
      [] OTHER -> c

Lower(text) == [i \in 1..Len(text) |-> LowerChar(text[i])]

\* `c in txt`
Contains(txt, c) == \E i \in 1..Len(txt) : txt[i] = c

\* txt.rfind(c): 0-based index of the last occurrence, -1 when absent
RFind(txt, c) ==
    IF Contains(txt, c)
    THEN (CHOOSE i \in 1..Len(txt) :
            /\ txt[i] = c
            /\ \A j \in (i+1)..Len(txt) : txt[j] # c) - 1
    ELSE -1

\* txt.replace(c, rep) for a one-character c
RECURSIVE Replace(_, _, _)
Replace(txt, c, rep) ==
    IF txt = <<>> THEN <<>>
    ELSE (IF Head(txt) = c THEN rep ELSE <<Head(txt)>>)
         \o Replace(Tail(txt), c, rep)

\* text.strip()
RECURSIVE LStrip(_)
LStrip(text) ==
    IF text # <<>> /\ Head(text) \in Whitespace THEN LStrip(Tail(text)) ELSE text

RECURSIVE RStrip(_)
RStrip(text) ==
    IF text # <<>> /\ text[Len(text)] \in Whitespace
    THEN RStrip(SubSeq(text, 1, Len(text) - 1))
    ELSE text

Strip(text) == RStrip(LStrip(text))

RECURSIVE DigitsToNat(_)
DigitsToNat(ds) ==
    IF ds = <<>> THEN 0
    ELSE DigitsToNat(SubSeq(ds, 1, Len(ds) - 1)) * 10 + DigitVal(ds[Len(ds)])

RECURSIVE Pow10(_)
Pow10(n) == IF n = 0 THEN 1 ELSE 10 * Pow10(n - 1)

\* the same number with the trailing zeros of its fraction dropped
RECURSIVE Normal(_, _)
Normal(n, s) ==
    IF s > 0 /\ n % 10 = 0 THEN Normal(n \div 10, s - 1) ELSE Float(n, s)

\* float(txt) for a txt of digits and '.', as clean_price calls it:
\* a number, or ValueError for a txt without a digit or with two dots
PyFloat(txt) ==
    LET dots == Cardinality({i \in 1..Len(txt) : txt[i] = "."})
        ds == SelectSeq(txt, LAMBDA c : c \in Digits)
    IN  IF \E i \in 1..Len(txt) : txt[i] \notin Digits \cup {"."}
        THEN Raised("ValueError")
        ELSE IF ds = <<>> \/ dots > 1 THEN Raised("ValueError")
        ELSE IF dots = 0 THEN Float(DigitsToNat(ds), 0)
        ELSE Normal(DigitsToNat(ds), Len(txt) - 1 - RFind(txt, "."))

-----------------------------------------------------------------------------
(* clean_price *)

\* re.sub(r"[^\d.,]", "", text)
StripNonPrice(text) == SelectSeq(text, LAMBDA c : c \in Digits \cup {".", ","})

\* lines 54-60: the separator rewriting
FixSeparatorsLeftmost(txt) ==
    IF Contains(txt, ",") /\ Contains(txt, ".")
    THEN IF RFind(txt, ",") < RFind(txt, ".")
         THEN Replace(Replace(txt, ".", <<>>), ",", <<".">>)
         ELSE Replace(txt, ",", <<>>)
    ELSE IF Contains(txt, ",") THEN Replace(txt, ",", <<".">>)
    ELSE txt

FixSeparators(txt) ==
    IF Contains(txt, ",") /\ Contains(txt, ".")
    THEN IF RFind(txt, ",") > RFind(txt, ".")
         THEN Replace(Replace(txt, ".", <<>>), ",", <<".">>)
         ELSE Replace(txt, ",", <<>>)
    ELSE IF Contains(txt, ",") THEN Replace(txt, ",", <<".">>)
    ELSE txt

\* clean_price(text): a Float, None, or Raised(e) for an exception that escapes
clean_price(text) ==
    IF text = NoneStr \/ text = <<>> THEN None
    ELSE LET r == PyFloat(FixSeparators(StripNonPrice(text)))
         IN  IF r.kind = "raise" /\ r.exc = "ValueError" THEN None ELSE r

-----------------------------------------------------------------------------
(* extract_property_details *)

\* re.search(r"(\d{2,4})\s*m[²2]", t): does the pattern match at 1-based
\* position i with a k-digit group
AreaMatchAt(t, i, k) ==
    /\ i + k - 1 <= Len(t)
    /\ \A j \in i..(i + k - 1) : t[j] \in Digits
    /\ \E w \in 0..Len(t) :
          /\ i + k + w + 1 <= Len(t)
          /\ \A j \in (i + k)..(i + k + w - 1) : t[j] \in Whitespace
          /\ t[i + k + w] = "m"
          /\ t[i + k + w + 1] \in {"²", "2"}

AreaRepeat == {2, 3, 4}     \* the {2,4} of the pattern

\* group(1) of the leftmost match, the longest group first; NoneStr if none
AreaSearch(t) ==
    LET starts == {i \in 1..Len(t) : \E k \in AreaRepeat : AreaMatchAt(t, i, k)}
    IN  IF starts = {} THEN NoneStr
        ELSE LET i == CHOOSE x \in starts : \A y \in starts : x <= y
                 k == CHOOSE x \in AreaRepeat :
                        /\ AreaMatchAt(t, i, x)
                        /\ \A y \in AreaRepeat : AreaMatchAt(t, i, y) => y <= x
             IN  SubSeq(t, i, i + k - 1)

\* the length of the longest run of characters of S that starts at t[i]
RECURSIVE RunLen(_, _, _)
RunLen(t, i, S) ==
    IF i <= Len(t) /\ t[i] \in S THEN 1 + RunLen(t, i + 1, S) ELSE 0

\* re.search(r"(\d+)\s*\+\s*(\d+)", t) at 1-based position i: each greedy
\* part takes its whole run (a shorter one leaves a character that the next
\* part of the pattern cannot take); the groups as <<start, length>> pairs
RoomGroupsAt(t, i) ==
    LET a == RunLen(t, i, Digits)
        u == RunLen(t, i + a, Whitespace)
        plus == i + a + u
        v == RunLen(t, plus + 1, Whitespace)
        b == RunLen(t, plus + 1 + v, Digits)
    IN  [ok |-> a >= 1 /\ plus <= Len(t) /\ t[plus] = "+" /\ b >= 1,
         g1 |-> <<i, a>>,
         g2 |-> <<plus + 1 + v, b>>]

\* f"{group(1)}+{group(2)}" of the leftmost match; NoneStr if there is none
RoomSearch(t) ==
    LET starts == {i \in 1..Len(t) : RoomGroupsAt(t, i).ok}
    IN  IF starts = {} THEN NoneStr
        ELSE LET i == CHOOSE x \in starts : \A y \in starts : x <= y
                 m == RoomGroupsAt(t, i)
             IN  SubSeq(t, m.g1[1], m.g1[1] + m.g1[2] - 1) \o <<"+">>
                 \o SubSeq(t, m.g2[1], m.g2[1] + m.g2[2] - 1)

\* extract_property_details(text), without the floor label "Kat"
extract_property_details(text) ==
    IF text = <<>>
    THEN [Oda_Sayisi |-> NoneStr, Brut_Alan_m2 |-> NoneStr]
    ELSE [Oda_Sayisi |-> RoomSearch(Lower(text)),
          Brut_Alan_m2 |-> AreaSearch(Lower(text))]

-----------------------------------------------------------------------------
(* The browser as the scraper sees it *)

\* the outcome of driver.find_elements / card.find_element: an exception,
\* or a list of elements
Found(els) == [kind |-> "list", els |-> els]
NoSuchElement == Raised("NoSuchElementException")
DriverError == Raised("WebDriverException")
Sigint == Raised("KeyboardInterrupt")

card_selectors ==
    << "div[data-testid='listing-card']", "article[data-testid='listing-item']",
       "div[class*='ListingCard']", "div[class*='PropertyCard']",
       "div[class*='listing']", "article[class*='property']",
       "div[class*='card']", "article", "li[class*='item']" >>

price_selectors ==
    << "[data-testid='price']", ".price", "[class*='price']", "[class*='Price']" >>

loc_selectors ==
    << "[data-testid='location']", ".location", "[class*='location']",
       "[class*='address']" >>

details_selectors ==
    << "[data-testid='property-features']", "ul", "[class*='features']",
       "[class*='details']" >>

Range(f) == {f[i] : i \in DOMAIN f}

-----------------------------------------------------------------------------
(* EmlakjetScraper.find_selector *)

NoMatch == [sel |-> "None", els |-> <<>>]

\* a variant that prefers the candidate with the most elements
RECURSIVE FindSelectorBest(_, _)
FindSelectorBest(ctx, selectors) ==
    IF selectors = <<>> THEN NoMatch
    ELSE LET o == ctx[Head(selectors)]
             rest == FindSelectorBest(ctx, Tail(selectors))
         IN  IF o.kind = "list" /\ o.els # <<>> /\ Len(o.els) >= Len(rest.els)
             THEN [sel |-> Head(selectors), els |-> o.els]
             ELSE rest

\* find_selector(driver, selectors): ctx maps a selector to the outcome of
\* driver.find_elements(By.CSS_SELECTOR, sel).  The bare `except:` catches
\* every exception, KeyboardInterrupt included.
RECURSIVE FindSelector(_, _)
FindSelector(ctx, selectors) ==
    IF selectors = <<>> THEN NoMatch
    ELSE LET o == ctx[Head(selectors)]
         IN  IF o.kind = "list" /\ o.els # <<>>
             THEN [sel |-> Head(selectors), els |-> o.els]
             ELSE FindSelector(ctx, Tail(selectors))

\* the candidates find_selector looks up before it returns
RECURSIVE Tried(_, _)
Tried(ctx, selectors) ==
    IF selectors = <<>> THEN <<>>
    ELSE LET o == ctx[Head(selectors)]
         IN  IF o.kind = "list" /\ o.els # <<>>
             THEN <<Head(selectors)>>
             ELSE <<Head(selectors)>> \o Tried(ctx, Tail(selectors))

\* KeyboardInterrupts raised inside the lookups of one find_selector call
SigintsIn(ctx, selectors) ==
    Cardinality({i \in 1..Len(Tried(ctx, selectors)) :
                   ctx[Tried(ctx, selectors)[i]] = Sigint})

-----------------------------------------------------------------------------
(* One listing card: what its sub-element lookups give *)

\* a sub-element with its .text and the outcome of find_elements(TAG_NAME, "li")
El(t) == [kind |-> "el", text |-> t, items |-> Found(<<>>)]
ElItems(t, its) == [kind |-> "el", text |-> t, items |-> its]
Attr(v) == [kind |-> "attr", value |-> v]
Text(t) == [kind |-> "text", text |-> t]

\* a lookup table in which every selector of sels raises NoSuchElementException
\* except those tab gives
Table(sels, tab) ==
    [s \in Range(sels) |-> IF s \in DOMAIN tab THEN tab[s] ELSE NoSuchElement]

P1M == <<"1", "0", "0", "0", "0", "0", "0", " ", "T", "L">>
P2500 == <<"2", "5", "0", "0">>
PAsk == <<"S", "o", "r">>
LocKM == <<"K", ",", " ", "M">>
Rooms31 == <<"3", "+", "1">>
Area100 == <<"1", "0", "0", " ", "M", "²">>
TextB == <<"3", " ", "+", " ", "1", " ", "3", "0", "m", "2">>
Area00 == <<"0", "0", " ", "m", "2">>
Area120 == <<"1", "2", "0", "m", "2">>

\* price 1000000 under the first candidate, 3+1, 100 m² in a feature list
CardA ==
    [price |-> Table(price_selectors, (price_selectors[1] :> El(<<" ">> \o P1M))),
     loc |-> Table(loc_selectors, (loc_selectors[1] :> El(LocKM))),
     details |-> Table(details_selectors,
                       (details_selectors[2] :>
                          ElItems(Rooms31 \o <<" ">> \o Area100,
                                  Found(<<Rooms31, <<" ">>, Area100>>)))),
     text |-> Text(P1M \o <<" ">> \o Rooms31),
     href |-> Attr(<<"a">>)]

\* the same price, location and rooms as CardA under later candidates,
\* no details container, 30 m² in the card text
CardB ==
    [price |-> Table(price_selectors, (price_selectors[2] :> El(P1M))),
     loc |-> Table(loc_selectors, (loc_selectors[3] :> El(LocKM))),
     details |-> Table(details_selectors, <<>>),
     text |-> Text(TextB),
     href |-> Attr(<<"b">>)]

\* no price text: one candidate finds an element whose text is blank
CardC ==
    [price |-> Table(price_selectors, (price_selectors[2] :> El(<<" ">>))),
     loc |-> Table(loc_selectors, (loc_selectors[1] :> El(LocKM))),
     details |-> Table(details_selectors, <<>>),
     text |-> Text(Area120),
     href |-> Attr(<<"c">>)]

\* a blank element under the first price candidate, 2500 under the third;
\* no location; area "00"; the list-item lookup fails; href missing
CardD ==
    [price |-> Table(price_selectors,
                     (price_selectors[1] :> El(<<>>)) @@
                     (price_selectors[3] :> El(P2500))),
     loc |-> Table(loc_selectors, <<>>),
     details |-> Table(details_selectors,
                       (details_selectors[1] :> ElItems(Area00, DriverError))),
     text |-> Text(P2500),
     href |-> Attr(NoneStr)]

\* price text without a number; 120 m²; no anchor
CardE ==
    [price |-> Table(price_selectors, (price_selectors[4] :> El(PAsk))),
     loc |-> Table(loc_selectors, (loc_selectors[1] :> El(LocKM))),
     details |-> Table(details_selectors,
                       (details_selectors[4] :> El(Area120))),
     text |-> Text(PAsk),
     href |-> NoSuchElement]

\* price 2500 and no details at all: card.text fails too
CardF ==
    [price |-> Table(price_selectors, (price_selectors[1] :> El(P2500))),
     loc |-> Table(loc_selectors, <<>>),
     details |-> Table(details_selectors, <<>>),
     text |-> DriverError,
     href |-> Attr(<<"f">>)]

\* the cards the pages of the run are made of
CardDoms == {CardA, CardC, CardD}

\* the cards whose records the saved accumulators are made of
SaveDoms == {CardA, CardB, CardD, CardE, CardF}

\* where a KeyboardInterrupt can arrive inside a bare `except:` of the card body
SigPoints == {"price", "loc", "details", "url"}

\* the card as the scraper sees it when a KeyboardInterrupt arrives during
\* the first lookup of group `at`
WithSigint(dom, at) ==
    CASE at = "price" -> [dom EXCEPT !.price[price_selectors[1]] = Sigint]
      [] at = "loc" -> [dom EXCEPT !.loc[loc_selectors[1]] = Sigint]
      [] at = "details" -> [dom EXCEPT !.details[details_selectors[1]] = Sigint]
      [] at = "url" -> [dom EXCEPT !.href = Sigint]
      [] OTHER -> dom

-----------------------------------------------------------------------------
(* scrape_page: the body of the card loop *)

\* a variant that takes the first element found, blank or not
RECURSIVE FirstElementText(_, _)
FirstElementText(table, sels) ==
    IF sels = <<>> THEN NoneStr
    ELSE LET o == table[Head(sels)]
         IN  IF o.kind = "el" THEN Strip(o.text)
             ELSE FirstElementText(table, Tail(sels))

\* lines 285-293 and 306-314: the text of the first candidate whose element
\* is found and has non-blank text; NoneStr when there is none
RECURSIVE FirstText(_, _)
FirstText(table, sels) ==
    IF sels = <<>> THEN NoneStr
    ELSE LET o == table[Head(sels)]
         IN  IF o.kind = "el" /\ Strip(o.text) # <<>> THEN Strip(o.text)
             ELSE FirstText(table, Tail(sels))

\* " | ".join(items)
RECURSIVE Join(_)
Join(items) ==
    IF items = <<>> THEN <<>>
    ELSE IF Len(items) = 1 THEN items[1]
    ELSE items[1] \o <<" ", "|", " ">> \o Join(Tail(items))

\* lines 327-342: the details loop; <<>> when no candidate gives text
RECURSIVE DetailsLoop(_, _)
DetailsLoop(table, sels) ==
    IF sels = <<>> THEN <<>>
    ELSE LET o == table[Head(sels)]
         IN  IF o.kind = "el" /\ Strip(o.text) # <<>>
             THEN IF o.items.kind = "list" /\ o.items.els # <<>>
                  THEN Join(SelectSeq([i \in 1..Len(o.items.els) |->
                                         Strip(o.items.els[i])],
                                      LAMBDA t : t # <<>>))
                  ELSE Strip(o.text)
             ELSE DetailsLoop(table, Tail(sels))

\* lines 317-348
DetailsText(dom) ==
    LET d == DetailsLoop(dom.details, details_selectors)
    IN  IF d # <<>> THEN d
        ELSE IF dom.text.kind = "text" THEN dom.text.text
        ELSE <<>>

\* lines 354-359
UrlLink(dom) ==
    IF dom.href.kind = "attr" /\ dom.href.value # NoneStr
    THEN dom.href.value
    ELSE <<>>

\* a variant that stops at the first price element, blank or not
PriceTextAnyElement(dom) == FirstElementText(dom.price, price_selectors)

\* lines 285-293
PriceText(dom) == FirstText(dom.price, price_selectors)

\* lines 372-384: the record of a card whose price text was read
\* (the fields Tarih, Semt, Mahalle, Kat and Detaylar are left out)
CardRecord(dom) ==
    LET price_text == PriceText(dom)
        loc == FirstText(dom.loc, loc_selectors)
        property_details == extract_property_details(DetailsText(dom))
    IN  [Fiyat |-> price_text,
         Fiyat_Sayisal |-> clean_price(price_text),
         Konum |-> IF loc = NoneStr THEN <<>> ELSE loc,
         Oda_Sayisi |-> property_details.Oda_Sayisi,
         Brut_Alan_m2 |-> property_details.Brut_Alan_m2,
         URL |-> UrlLink(dom)]

\* line 295: `if not price_text: continue`
Priced(dom) == PriceText(dom) # NoneStr /\ PriceText(dom) # <<>>

-----------------------------------------------------------------------------
(* run: the post-processing of the accumulator, lines 430-445 *)

\* pd.to_numeric(area, errors="coerce") for None or a digit string
ToNumeric(area) == IF area = NoneStr THEN None ELSE Float(DigitsToNat(area), 0)

\* round(p / a, 2) for p = num / 10^scale and an integer a > 0,
\* computed exactly, a tie going to the even hundredth
RoundedQuotient(p, a) ==
    LET n == p.num * 100
        d == Pow10(p.scale) * a
        q == n \div d
        r == n % d
        h == IF 2 * r > d \/ (2 * r = d /\ q % 2 = 1) THEN q + 1 ELSE q
    IN  Normal(h, 2)

\* a variant whose guard lets an area of 0 through
PricePerAreaNoGuard(price, area) ==
    IF price # None /\ area # None /\ area.num >= 0
    THEN IF area.num = 0 THEN [kind |-> "inf"]
         ELSE RoundedQuotient(price, area.num)
    ELSE None

\* lines 437-442: the lambda of df.apply
PricePerArea(price, area) ==
    IF price # None /\ area # None /\ area.num > 0
    THEN RoundedQuotient(price, area.num)
    ELSE None

\* lines 434-442: the frame with its two derived columns
Derived(rows) ==
    [i \in 1..Len(rows) |->
        [Fiyat |-> rows[i].Fiyat,
         Fiyat_Sayisal |-> rows[i].Fiyat_Sayisal,
         Konum |-> rows[i].Konum,
         Oda_Sayisi |-> rows[i].Oda_Sayisi,
         Brut_Alan_m2 |-> rows[i].Brut_Alan_m2,
         URL |-> rows[i].URL,
         Brut_Alan_m2_Numeric |-> ToNumeric(rows[i].Brut_Alan_m2),
         Fiyat_Per_m2 |-> PricePerArea(rows[i].Fiyat_Sayisal,
                                       ToNumeric(rows[i].Brut_Alan_m2))]]

\* subset=["Fiyat", "Konum", "Oda_Sayisi"]
DedupKey(row) == <<row.Fiyat, row.Konum, row.Oda_Sayisi>>

\* the rows whose index is in S, in order
RECURSIVE Pick(_, _, _)
Pick(rows, S, i) ==
    IF i > Len(rows) THEN <<>>
    ELSE (IF i \in S THEN <<rows[i]>> ELSE <<>>) \o Pick(rows, S, i + 1)

\* a variant with keep="last"
DropDuplicatesLast(rows) ==
    Pick(rows,
         {i \in 1..Len(rows) :
            \A j \in (i + 1)..Len(rows) : DedupKey(rows[j]) # DedupKey(rows[i])},
         1)

RECURSIVE DropFrom(_, _)
DropFrom(rows, keys) ==
    IF rows = <<>> THEN <<>>
    ELSE IF DedupKey(Head(rows)) \in keys THEN DropFrom(Tail(rows), keys)
    ELSE <<Head(rows)>>
         \o DropFrom(Tail(rows), keys \cup {DedupKey(Head(rows))})

\* line 445: df.drop_duplicates(subset=..., keep="first")
DropDuplicates(rows) == DropFrom(rows, {})

\* lines 430-460: the rows written to emlakjet_<timestamp>.csv
FinalRows(rows) == DropDuplicates(Derived(rows))

-----------------------------------------------------------------------------------------------------------------------------------------------------
(* The cards of the model with what the loop body makes of each *)

CardViews == {WithSigint(d, at) : d \in CardDoms, at \in SigPoints \cup {"none"}}

\* the card has price text: some price candidate finds an element whose
\* text has a character that is not whitespace
HasPriceText(dom) ==
    \E s \in Range(price_selectors) :
        /\ dom.price[s].kind = "el"
        /\ \E i \in 1..Len(dom.price[s].text) :
              dom.price[s].text[i] \notin Whitespace

\* the loop body applied to each card, computed once
Body ==
    [dom \in CardViews |->
        [priced |-> Priced(dom),
         has |-> HasPriceText(dom),
         record |-> IF Priced(dom) THEN CardRecord(dom) ELSE None]]

-----
(* The run: __main__, run and scrape_page *)

ScrollThreshold == 3    \* line 261: `len(cards) < 3`

\* the n elements a selector finds on attempt a (1 direct, 2 after the scroll)
Handles(s, n, a) == [j \in 1..n |-> [pos |-> j, attempt |-> a]]

\* what one card selector can give on one attempt
PageOutcomes(s, a) ==
    {DriverError, Sigint} \cup {Found(Handles(s, n, a)) : n \in 0..MaxCards}

\* a page on which only the first and the eighth card selector can match
PageCtx(o1, o8) ==
    [s \in Range(card_selectors) |->
        IF s = card_selectors[1] THEN o1
        ELSE IF s = card_selectors[8] THEN o8
        ELSE Found(<<>>)]

\* a variant of the page handler that catches the timeout only
CatchesOnlyTimeout(exc) == exc = "TimeoutException"

\* lines 400-408: `except TimeoutException` and `except Exception`
CatchesPageError(exc) == exc # "KeyboardInterrupt"

\* a variant of the card loop without its handler
CatchesNoCardError(exc) == FALSE

\* lines 392-395: `except Exception` around the body of the card loop
CatchesCardError(exc) == exc # "KeyboardInterrupt"

Unused == <<"unused">>
Unset == [sel |-> "unset", els |-> <<>>]

InitRun ==
    /\ pc = "start"
    /\ max_pages \in 1..MaxPages
    /\ page = 0
    /\ visited = <<>>
    /\ failedPages = {}
    /\ cards = <<>>
    /\ direct = <<>>
    /\ lookups = 0
    /\ idx = 0
    /\ count = 0
    /\ returned = -1
    /\ nPriced = 0
    /\ nFailed = 0
    /\ pageStart = 0
    /\ data = <<>>
    /\ output = NoFile
    /\ partial = NoFile
    /\ sigints = 0
    /\ swallowed = 0
    /\ traced = FALSE
    /\ exitCode = -1

Init == InitRun /\ arg = Unused /\ res = Unused

\* __main__, lines 543-546: `except Exception`, then the script ends
FatalExit ==
    /\ pc' = "exit"
    /\ traced' = TRUE
    /\ exitCode' = 0

\* run, line 421: get_driver starts Chrome; the loop begins with page 1
OpenDriver ==
    /\ pc = "start"
    /\ pc' = "page"
    /\ page' = 1
    /\ UNCHANGED <<max_pages, visited, failedPages, cards, direct, lookups, idx, count,
                   returned, nPriced, nFailed, pageStart, data, output,
                   partial, sigints, swallowed, traced, exitCode, arg, res>>

\* get_driver, lines 127-146: starting Chrome raises; the exception leaves
\* run and reaches __main__
DriverFails ==
    /\ pc = "start"
    /\ FatalExit
    /\ UNCHANGED <<max_pages, page, visited, failedPages, cards, direct, lookups, idx,
                   count, returned, nPriced, nFailed, pageStart, data, output,
                   partial, sigints, swallowed, arg, res>>

\* scrape_page, lines 228-243 raise: driver.get or the wait times out or fails
PageFails ==
    /\ pc = "page"
    /\ \E exc \in {"TimeoutException", "WebDriverException"} :
          /\ visited' = Append(visited, page)
          /\ cards' = <<>>
          /\ direct' = <<>>
          /\ lookups' = 0
          /\ idx' = 0
          /\ count' = 0
          /\ nPriced' = 0
          /\ nFailed' = 0
          /\ pageStart' = Len(data)
          /\ IF CatchesPageError(exc)
             THEN /\ returned' = 0
                  /\ pc' = "pause"
                  /\ failedPages' = failedPages \cup {page}
                  /\ UNCHANGED <<traced, exitCode>>
             ELSE /\ FatalExit
                  /\ UNCHANGED <<returned, failedPages>>
    /\ UNCHANGED <<max_pages, page, data, output, partial, sigints, swallowed,
                   arg, res>>

\* scrape_page, lines 259-265: the two-tier discovery on a page whose direct
\* lookups give ctx1 and whose lookups after the scroll give ctx2
Discover(ctx1, ctx2) ==
    LET first == FindSelector(ctx1, card_selectors)
        retry == Len(first.els) < ScrollThreshold
    IN  [direct |-> first.els,
         lookups |-> IF retry THEN 2 ELSE 1,
         found |-> IF retry THEN FindSelector(ctx2, card_selectors).els
                   ELSE first.els,
         sigints |-> SigintsIn(ctx1, card_selectors)
                     + IF retry THEN SigintsIn(ctx2, card_selectors) ELSE 0]

\* the discoveries of all the pages of the model, computed once
Discoveries ==
    {Discover(PageCtx(o1, o8), PageCtx(p1, p8)) :
        o1 \in PageOutcomes(card_selectors[1], 1),
        o8 \in PageOutcomes(card_selectors[8], 1),
        p1 \in PageOutcomes(card_selectors[1], 2),
        p8 \in PageOutcomes(card_selectors[8], 2)}

\* scrape_page, lines 222-271: the page loads and the cards are discovered
LoadPage ==
    /\ pc = "page"
    /\ \E d \in Discoveries :
          /\ sigints + d.sigints <= MaxSigints
          /\ Len(data) + Len(d.found) <= MaxData
          /\ sigints' = sigints + d.sigints
          /\ swallowed' = swallowed + d.sigints
          /\ visited' = Append(visited, page)
          /\ direct' = d.direct
          /\ lookups' = d.lookups
          /\ cards' = d.found
          /\ idx' = 0
          /\ count' = 0
          /\ nPriced' = 0
          /\ nFailed' = 0
          /\ pageStart' = Len(data)
          /\ IF d.found = <<>>
             THEN returned' = 0 /\ pc' = "pause"
             ELSE pc' = "cards" /\ UNCHANGED returned
    /\ UNCHANGED <<max_pages, page, failedPages, data, output, partial,
                   traced, exitCode, arg, res>>

\* scrape_page, lines 275-398: the loop body for the card at idx, and the
\* return after the last card.  `fault` is an Exception raised while the
\* record of a priced card is put together (lines 298-385); `at` is where a
\* KeyboardInterrupt arrives inside one of the body's bare `except:`.
ProcessCard ==
    /\ pc = "cards"
    /\ idx < Len(cards)
    /\ \E d \in CardDoms, at \in SigPoints \cup {"none"}, fault \in BOOLEAN :
          LET dom == WithSigint(d, at)
              body == Body[dom]
              emit == body.priced /\ ~fault
              caught == CatchesCardError("Exception")
              n == IF emit THEN count + 1 ELSE count
          IN  /\ at # "none" => sigints < MaxSigints
              /\ at \in SigPoints \ {"price"} => body.priced
              /\ fault => body.priced
              /\ sigints' = IF at = "none" THEN sigints ELSE sigints + 1
              /\ swallowed' = IF at = "none" THEN swallowed ELSE swallowed + 1
              /\ data' = IF emit THEN Append(data, body.record) ELSE data
              /\ count' = n
              /\ nPriced' = IF body.has THEN nPriced + 1 ELSE nPriced
              /\ nFailed' = IF fault THEN nFailed + 1 ELSE nFailed
              /\ idx' = idx + 1
              /\ IF fault /\ ~caught
                 THEN \* the Exception reaches the handlers of lines 400-408
                      IF CatchesPageError("Exception")
                      THEN /\ returned' = 0
                           /\ pc' = "pause"
                           /\ UNCHANGED <<traced, exitCode>>
                      ELSE /\ FatalExit
                           /\ UNCHANGED returned
                 ELSE /\ UNCHANGED <<traced, exitCode>>
                      /\ IF idx + 1 = Len(cards)
                         THEN returned' = n /\ pc' = "pause"
                         ELSE pc' = "cards" /\ UNCHANGED returned
    /\ UNCHANGED <<max_pages, page, visited, failedPages, cards, direct, lookups,
                   pageStart, output, partial, arg, res>>

\* run, lines 423-427: the pause after a page, then the next page
NextPage ==
    /\ pc = "pause"
    /\ page < max_pages
    /\ page' = page + 1
    /\ pc' = "page"
    /\ UNCHANGED <<max_pages, visited, failedPages, cards, direct, lookups, idx, count,
                   returned, nPriced, nFailed, pageStart, data, output,
                   partial, sigints, swallowed, traced, exitCode, arg, res>>

\* run, lines 423-504, after the last page: the driver is closed and the
\* result is written unless the accumulator is empty; the script ends.
\* With ok false, df.to_csv raises and the exception reaches __main__.
Finish ==
    /\ pc = "pause"
    /\ page = max_pages
    /\ \E ok \in BOOLEAN :
          IF data = <<>> \/ ok
          THEN /\ output' = IF data = <<>> THEN NoFile ELSE FinalRows(data)
               /\ pc' = "exit"
               /\ exitCode' = 0
               /\ UNCHANGED traced
          ELSE /\ FatalExit
               /\ UNCHANGED output
    /\ UNCHANGED <<max_pages, page, visited, failedPages, cards, direct, lookups, idx,
                   count, returned, nPriced, nFailed, pageStart, data,
                   partial, sigints, swallowed, arg, res>>

\* a KeyboardInterrupt outside every bare `except:`: it passes the
\* `except Exception` handlers, get_driver quits the browser, and __main__
\* (lines 536-542) writes the accumulator as it is; the script then ends
Interrupt ==
    /\ pc \in {"start", "page", "cards", "pause"}
    /\ sigints < MaxSigints
    /\ sigints' = sigints + 1
    /\ partial' = IF data # <<>> THEN data ELSE NoFile
    /\ pc' = "exit"
    /\ exitCode' = 0
    /\ UNCHANGED <<max_pages, page, visited, failedPages, cards, direct, lookups, idx,
                   count, returned, nPriced, nFailed, pageStart, data, output,
                   swallowed, traced, arg, res>>

Progress ==
    \/ OpenDriver
    \/ PageFails
    \/ LoadPage
    \/ ProcessCard
    \/ NextPage
    \/ Finish

Next ==
    \/ OpenDriver
    \/ DriverFails
    \/ PageFails
    \/ LoadPage
    \/ ProcessCard
    \/ NextPage
    \/ Finish
    \/ Interrupt

Spec == Init /\ [][Next]_vars

\* the process keeps running: it is sequential and every wait is bounded
FairSpec == Spec /\ WF_vars(Progress)

Completed == pc = "exit" /\ ~traced /\ sigints = swallowed
Interrupted == pc = "exit" /\ sigints > swallowed
Fatal == pc = "exit" /\ traced

-----------------------------------------------------------------------------
(* find_selector tried alone: every candidate list over three selectors    *)
(* against every context                                                   *)

Names == {"A", "B", "C"}

Seqs(S, n) == UNION {[1..k -> S] : k \in 0..n}

CandidateLists ==
    {l \in Seqs(Names, Cardinality(Names)) :
        \A i, j \in 1..Len(l) : i # j => l[i] # l[j]}

LocOutcomes(s) ==
    {DriverError, Sigint}
    \cup {Found([j \in 1..n |-> [sel |-> s, pos |-> j]]) : n \in 0..MaxMatch}

Contexts ==
    {[s \in Names |-> IF s = "A" THEN a ELSE IF s = "B" THEN b ELSE c] :
        a \in LocOutcomes("A"), b \in LocOutcomes("B"), c \in LocOutcomes("C")}

InitLocator ==
    /\ InitRun
    /\ arg \in {[ctx |-> c, sels |-> l] : c \in Contexts, l \in CandidateLists}
    /\ res = Unset

Locate ==
    /\ res = Unset
    /\ res' = FindSelector(arg.ctx, arg.sels)
    /\ UNCHANGED <<runVars, arg>>

NextLocator == Locate

SpecLocator == InitLocator /\ [][NextLocator]_vars

\* C1: find_selector returns the first candidate of the list whose lookup
\* gives at least one element, with all the elements that lookup gave, even
\* when a later candidate gives more; a lookup that raises counts as no
\* match; when no candidate gives an element the result is (None, []).
C1_FirstMatchWins ==
    res # Unset =>
        LET hits == {i \in 1..Len(arg.sels) :
                        /\ arg.ctx[arg.sels[i]].kind = "list"
                        /\ Len(arg.ctx[arg.sels[i]].els) >= 1}
        IN  IF hits = {}
            THEN res = [sel |-> "None", els |-> <<>>]
            ELSE \E i \in hits :
                    /\ \A j \in hits : i <= j
                    /\ res.sel = arg.sels[i]
                    /\ res.els = arg.ctx[arg.sels[i]].els

\* the first candidate raises, the second finds 2, the third finds 3:
\* the result is the second with its 2 elements
C1_Witness ==
    /\ res # Unset
    /\ arg.sels = <<"A", "B", "C">>
    /\ arg.ctx["A"].kind = "raise"
    /\ arg.ctx["B"].kind = "list" /\ Len(arg.ctx["B"].els) = 2
    /\ arg.ctx["C"].kind = "list" /\ Len(arg.ctx["C"].els) = 3
    /\ res.sel = "B"
    /\ Len(res.els) = 2

-----------------------------------------------------------------------------
(* clean_price tried alone *)

PriceAlphabet == {"0", "5", ".", ",", " "}

E_TL == <<"1", ".", "2", "3", "4", ",", "5", "6", " ", "T", "L">>
E_US == <<"1", ",", "2", "3", "4", ".", "5", "6">>

PriceTexts ==
    Seqs(PriceAlphabet, MaxPriceLen)
    \cup {NoneStr, E_TL, E_US, P2500, P1M, PAsk, <<"T", "L">>}

NoPrice == [kind |-> "unset"]

InitPrice ==
    /\ InitRun
    /\ arg \in PriceTexts
    /\ res = NoPrice

ParsePrice ==
    /\ res = NoPrice
    /\ res' = clean_price(arg)
    /\ UNCHANGED <<runVars, arg>>

NextPrice == ParsePrice

SpecPrice == InitPrice /\ [][NextPrice]_vars

\* the characters of the text that are digits, '.' or ','
PriceChars(t) ==
    IF t = NoneStr THEN <<>>
    ELSE SelectSeq(t, LAMBDA c : c \in Digits \cup {".", ","})

\* the character that marks the decimals: the rightmost separator when both
\* kinds appear, ',' when only ',' appears, '.' otherwise
DecimalMark(k) ==
    LET seps == {i \in 1..Len(k) : k[i] \in {".", ","}}
        both == (\E i \in seps : k[i] = ".") /\ (\E i \in seps : k[i] = ",")
    IN  IF both THEN k[CHOOSE i \in seps : \A j \in seps : j <= i]
        ELSE IF \E i \in seps : k[i] = "," THEN ","
        ELSE "."

\* C10: clean_price never raises; it gives null for None, for the empty
\* text and for every text that is no number after stripping (no digit, or
\* more than one decimal mark), never 0 in their place; otherwise it gives
\* the number whose digits are the digits of the text and whose decimals
\* start at the decimal mark: the rightmost separator when both '.' and ','
\* appear, ',' when only ',' appears, '.' otherwise.
C10_PriceParser ==
    res # NoPrice =>
        LET k == PriceChars(arg)
            mark == DecimalMark(k)
            marks == {i \in 1..Len(k) : k[i] = mark}
            digits == SelectSeq(k, LAMBDA c : c \in Digits)
            decimals == IF marks = {} THEN 0
                        ELSE Cardinality({i \in 1..Len(k) :
                                            /\ k[i] \in Digits
                                            /\ \A m \in marks : m < i})
        IN  /\ res.kind \in {"None", "float"}
            /\ IF digits = <<>> \/ Cardinality(marks) > 1
               THEN res = None
               ELSE res = Normal(DigitsToNat(digits), decimals)
            /\ arg = E_TL => res = Float(123456, 2)
            /\ arg = E_US => res = Float(123456, 2)
            /\ arg = P2500 => res = Float(2500, 0)

\* "1.234,56 TL", with both separators and a currency, gave 1234.56
C10_Witness ==
    /\ arg = E_TL
    /\ res = Float(123456, 2)

-----------------------------------------------------------------------------
(* the area pattern of extract_property_details tried alone *)

AreaAlphabet == {"1", "2", "m", " "}

AreaTexts ==
    Seqs(AreaAlphabet, MaxAreaLen)
    \cup {Area100, Area120, Area00, TextB, <<"8", "5", "m", "2">>,
          <<"5", " ", "m", "²">>}

NoArea == <<"unset">>

InitArea ==
    /\ InitRun
    /\ arg \in AreaTexts
    /\ res = NoArea

ParseArea ==
    /\ res = NoArea
    /\ res' = extract_property_details(arg).Brut_Alan_m2
    /\ UNCHANGED <<runVars, arg>>

NextArea == ParseArea

SpecArea == InitArea /\ [][NextArea]_vars

\* C9: the area parser gives a digit string only for a whole number of 2
\* to 4 digits followed, after optional spaces, by m² or m2: the string it
\* gives is never a part of a longer number of the text.
C9_WholeNumberOnly ==
    (res # NoArea /\ res # NoneStr) =>
        \E i \in 1..Len(arg) :
            /\ Len(res) \in 2..4
            /\ i + Len(res) - 1 <= Len(arg)
            /\ SubSeq(arg, i, i + Len(res) - 1) = res
            /\ i > 1 => arg[i - 1] \notin Digits
            /\ \E w \in 0..Len(arg) :
                  /\ i + Len(res) + w + 1 <= Len(arg)
                  /\ \A j \in (i + Len(res))..(i + Len(res) + w - 1) :
                        arg[j] = " "
                  /\ arg[i + Len(res) + w] \in {"m", "M"}
                  /\ arg[i + Len(res) + w + 1] \in {"²", "2"}

-----------------------------------------------------------------------------
(* the saving of run (lines 430-460) tried alone on every accumulator of   *)
(* up to MaxRows records                                                   *)

SaveRecords == {CardRecord(d) : d \in SaveDoms}

NoRows == <<[kind |-> "unset"]>>

InitSave ==
    /\ InitRun
    /\ arg \in Seqs(SaveRecords, MaxRows) \ {<<>>}
    /\ res = NoRows

Save ==
    /\ res = NoRows
    /\ res' = FinalRows(arg)
    /\ UNCHANGED <<runVars, arg>>

NextSave == Save

SpecSave == InitSave /\ [][NextSave]_vars

\* the columns of a row that come from the accumulator
Scraped(row) ==
    [Fiyat |-> row.Fiyat, Fiyat_Sayisal |-> row.Fiyat_Sayisal,
     Konum |-> row.Konum, Oda_Sayisi |-> row.Oda_Sayisi,
     Brut_Alan_m2 |-> row.Brut_Alan_m2, URL |-> row.URL]

\* C7: the final output holds, for each key (price text, location text,
\* room layout) of the accumulator, the first accumulated record with that
\* key and no other record with that key, in accumulation order.
C7_DedupKeepsFirst ==
    res # NoRows =>
        LET key(r) == <<r.Fiyat, r.Konum, r.Oda_Sayisi>>
            firsts == {i \in 1..Len(arg) :
                         \A j \in 1..(i - 1) : key(arg[j]) # key(arg[i])}
        IN  /\ Len(res) = Cardinality(firsts)
            /\ \A k \in 1..Len(res) :
                  \E i \in firsts :
                     /\ Cardinality({j \in firsts : j < i}) = k - 1
                     /\ Scraped(res[k]) = arg[i]

\* two records with one key that differ elsewhere were accumulated, a
\* record with another key between them, and the output is shorter
C7_Witness ==
    /\ res # NoRows
    /\ Len(arg) = 3
    /\ arg[1].Fiyat = arg[3].Fiyat
    /\ arg[1].Konum = arg[3].Konum
    /\ arg[1].Oda_Sayisi = arg[3].Oda_Sayisi
    /\ arg[1].URL # arg[3].URL
    /\ arg[2].Fiyat # arg[1].Fiyat
    /\ Len(res) = 2

\* price / area - ppa, times 100 * 10^scale * area, for a row whose
\* price-per-area ppa is a number of at most two decimals
PpaError(row) ==
    LET hundredths == row.Fiyat_Per_m2.num * Pow10(2 - row.Fiyat_Per_m2.scale)
        d == Pow10(row.Fiyat_Sayisal.scale) * DigitsToNat(row.Brut_Alan_m2)
    IN  row.Fiyat_Sayisal.num * 100 - hundredths * d

PpaExpected(row) ==
    /\ row.Fiyat_Sayisal # None
    /\ row.Brut_Alan_m2 # NoneStr
    /\ DigitsToNat(row.Brut_Alan_m2) > 0

\* C8 as stated: price-per-area is non-null only with a price and an area
\* greater than 0, and then it equals price divided by area.
C8_ExactQuotient ==
    res # NoRows =>
        \A k \in 1..Len(res) :
            /\ res[k].Fiyat_Per_m2 # None <=> PpaExpected(res[k])
            /\ res[k].Fiyat_Per_m2 # None =>
                  /\ res[k].Fiyat_Per_m2.kind = "float"
                  /\ PpaError(res[k]) = 0

\* C8, amended: price-per-area is non-null exactly when the numeric price is
\* present, the area is present and the area is greater than 0, and then it
\* is price divided by area rounded to two decimals (within 0.005 of the
\* quotient); it is null, and nothing is divided by zero, when the area is
\* 0 or null or the price is null.
C8_RoundedQuotient ==
    res # NoRows =>
        \A k \in 1..Len(res) :
            /\ res[k].Fiyat_Per_m2 # None <=> PpaExpected(res[k])
            /\ res[k].Fiyat_Per_m2 # None =>
                  /\ res[k].Fiyat_Per_m2.kind = "float"
                  /\ res[k].Fiyat_Per_m2.scale <= 2
                  /\ LET d == Pow10(res[k].Fiyat_Sayisal.scale)
                              * DigitsToNat(res[k].Brut_Alan_m2)
                         e == PpaError(res[k])
                     IN  2 * e <= d /\ -2 * e <= d
            /\ (res[k].Fiyat_Sayisal = Float(1000000, 0)
                   /\ res[k].Brut_Alan_m2 = <<"1", "0", "0">>)
                  => res[k].Fiyat_Per_m2 = Float(10000, 0)

\* the output holds a row with 1000000 / 100 = 10000.0, a row with area
\* "00" and a row without a numeric price, both with a null price-per-area
C8_Witness ==
    /\ res # NoRows
    /\ \E k \in 1..Len(res) :
          /\ res[k].Brut_Alan_m2 = <<"1", "0", "0">>
          /\ res[k].Fiyat_Per_m2 = Float(10000, 0)
    /\ \E k \in 1..Len(res) :
          /\ res[k].Brut_Alan_m2 = <<"0", "0">>
          /\ res[k].Fiyat_Sayisal # None
          /\ res[k].Fiyat_Per_m2 = None
    /\ \E k \in 1..Len(res) :
          /\ res[k].Fiyat_Sayisal = None
          /\ res[k].Brut_Alan_m2 # NoneStr
          /\ res[k].Fiyat_Per_m2 = None

-----------------------------------------------------------------------------
(* the body of the card loop tried alone: every price table and every      *)
(* location table over the outcomes below                                  *)

\* what card.find_element gives for one price candidate: no element, a
\* KeyboardInterrupt during the lookup, an element with blank text, or an
\* element with text
PriceOutcomes == {NoSuchElement, Sigint, El(<<" ">>), El(P2500), El(PAsk)}

\* the same for one location candidate
LocationOutcomes == {NoSuchElement, El(<<>>), El(LocKM), El(<<" ", "M">>)}

CardInputs ==
    {[CardA EXCEPT !.price = t] : t \in [Range(price_selectors) -> PriceOutcomes]}
    \cup {[CardA EXCEPT !.loc = t] :
             t \in [Range(loc_selectors) -> LocationOutcomes]}

NoCard == [kind |-> "unset"]

InitCard ==
    /\ InitRun
    /\ arg \in CardInputs
    /\ res = NoCard

\* lines 278-386 for one card: None when the card is left by `continue`,
\* else the record that is appended
ExtractCard ==
    /\ res = NoCard
    /\ res' = IF Priced(arg) THEN CardRecord(arg) ELSE None
    /\ UNCHANGED <<runVars, arg>>

NextCard == ExtractCard

SpecCard == InitCard /\ [][NextCard]_vars

\* the lookups of a card as find_selector would see them: a candidate that
\* finds an element gives the list of that element
AsContext(table) ==
    [s \in DOMAIN table |->
        IF table[s].kind = "el" THEN Found(<<table[s]>>) ELSE table[s]]

\* the candidate finds an element whose text is not blank
Usable(table, s) ==
    /\ table[s].kind = "el"
    /\ \E i \in 1..Len(table[s].text) : table[s].text[i] \notin Whitespace

\* candidate i is the first usable one of the list
DecidedBy(table, sels, i) ==
    /\ Usable(table, sels[i])
    /\ \A j \in 1..(i - 1) : ~Usable(table, sels[j])

\* C11 as stated: the price and the location of a card are what
\* find_selector gives over the same candidates: the field is the text of
\* the first candidate that finds an element, whatever later candidates
\* find, and the card is skipped for missing price exactly when no price
\* candidate finds an element.
C11_SameAsFindSelector ==
    res # NoCard =>
        LET p == FindSelector(AsContext(arg.price), price_selectors)
            l == FindSelector(AsContext(arg.loc), loc_selectors)
        IN  /\ (res = None) <=> (p.els = <<>>)
            /\ res # None =>
                  /\ res.Fiyat = Strip(p.els[1].text)
                  /\ res.Konum = IF l.els = <<>> THEN <<>>
                                 ELSE Strip(l.els[1].text)

\* C11, amended: the field is the stripped text of the first candidate that
\* finds an element with non-blank text, whatever later candidates find (a
\* candidate whose element is blank or whose lookup raises is passed over);
\* the card is skipped for missing price exactly when no price candidate
\* finds such an element, and the location is empty exactly when no
\* location candidate does.
C11_FirstNonBlankWins ==
    res # NoCard =>
        /\ (res = None) <=>
              (\A i \in 1..Len(price_selectors) :
                  ~Usable(arg.price, price_selectors[i]))
        /\ res # None =>
              /\ \E i \in 1..Len(price_selectors) :
                    /\ DecidedBy(arg.price, price_selectors, i)
                    /\ res.Fiyat = Strip(arg.price[price_selectors[i]].text)
              /\ IF \A i \in 1..Len(loc_selectors) :
                        ~Usable(arg.loc, loc_selectors[i])
                 THEN res.Konum = <<>>
                 ELSE \E i \in 1..Len(loc_selectors) :
                         /\ DecidedBy(arg.loc, loc_selectors, i)
                         /\ res.Konum = Strip(arg.loc[loc_selectors[i]].text)

\* the first price candidate found a blank element, the lookup of the second
\* was interrupted, and the third decided the price although the fourth
\* found text too
C11_Witness ==
    /\ arg.price[price_selectors[1]] = El(<<" ">>)
    /\ arg.price[price_selectors[2]] = Sigint
    /\ arg.price[price_selectors[3]] = El(P2500)
    /\ arg.price[price_selectors[4]] = El(PAsk)
    /\ res # NoCard
    /\ res # None
    /\ res.Fiyat = P2500

-----------------------------------------------------------------------------
(* Properties of the run *)

NonBlankPrices ==
    \A k \in 1..Len(data) : data[k].Fiyat # <<>> /\ data[k].Fiyat # NoneStr

\* C2 as stated: when scrape_page returns, the accumulator has grown by
\* exactly the number of cards with price text, that number is the value
\* returned, and every record has price text.
C2_OnePerPricedCard ==
    /\ NonBlankPrices
    /\ pc = "pause" =>
          /\ Len(data) - pageStart = nPriced
          /\ returned = nPriced

\* C2, amended: when scrape_page returns, the accumulator has grown by
\* exactly the number of cards with price text whose processing raised no
\* exception (a card without price text under every candidate adds nothing),
\* that number is the value returned, and every record has price text.
C2_OnePerPricedCardNotFailed ==
    /\ NonBlankPrices
    /\ pc \in {"cards", "pause"} =>
          /\ Len(data) - pageStart = nPriced - nFailed
          /\ count = nPriced - nFailed
    /\ pc = "pause" => returned = nPriced - nFailed

\* a page of 3 cards, one of them without price text, gave 2 records
C2_Witness ==
    /\ pc = "pause"
    /\ Len(cards) = 3
    /\ idx = 3
    /\ nPriced = 2
    /\ nFailed = 0
    /\ returned = 2
    /\ Len(data) = pageStart + 2

\* C3: an exception raised while one card is processed is caught and skips
\* that card only: the accumulator and the counter are unchanged by it, the
\* loop goes on with the next card, a later card with price text is still
\* appended, and scrape_page returns only after every card had its turn.
C3_FailureSkipsOneCard ==
    /\ [][nFailed' = nFailed + 1 =>
            /\ data' = data
            /\ count' = count
            /\ cards' = cards
            /\ idx' = idx + 1
            /\ pc' = IF idx' < Len(cards) THEN "cards" ELSE "pause"]_vars
    /\ [][(pc = "cards" /\ nFailed > 0 /\ nFailed' = nFailed
              /\ nPriced' = nPriced + 1) =>
            /\ Len(data') = Len(data) + 1
            /\ SubSeq(data', 1, Len(data)) = data]_vars
    /\ [](pc = "pause" /\ cards # <<>> => idx = Len(cards))

\* on a page of 3 cards one failed and the two others were appended
C3_Witness ==
    /\ pc = "pause"
    /\ Len(cards) = 3
    /\ idx = 3
    /\ nFailed = 1
    /\ nPriced = 3
    /\ Len(data) = pageStart + 2

\* C4: scrape_page is called for the pages 1, 2, ... in this order, each
\* once and none beyond max_pages; a page whose load times out or raises,
\* or that has no cards, leaves the accumulator as it was, returns 0 and is
\* followed by the next page; and unless the run is interrupted every page
\* up to max_pages is attempted in the end.
C4_EveryPageOnce ==
    /\ [](/\ visited = [i \in 1..Len(visited) |-> i]
          /\ Len(visited) <= max_pages)
    /\ [][(pc = "page" /\ pc' = "pause") =>
            /\ data' = data
            /\ returned' = 0
            /\ visited' = Append(visited, page)]_vars
    /\ [][(pc = "pause" /\ pc' # "pause") =>
            \/ Interrupted'
            \/ page < max_pages /\ pc' = "page" /\ page' = page + 1
            \/ page = max_pages /\ pc' = "exit"]_vars
    /\ (pc = "page") ~> (Len(visited) = max_pages \/ Interrupted)

\* the load of page 1 failed and page 2 is being processed
C4_Witness ==
    /\ 1 \in failedPages
    /\ visited = <<1, 2>>
    /\ page = 2
    /\ pc = "cards"

\* C5: once a KeyboardInterrupt was delivered, the run has ended and the
\* accumulated records are in the partial-output file.
C5_InterruptStopsAndSaves ==
    sigints > 0 =>
        /\ pc = "exit"
        /\ data = <<>> \/ partial = data

\* C6: normal completion writes the output and exits 0; an interrupted run
\* writes partial output and exits non-zero; a fatal error prints a trace
\* and exits non-zero.
C6_ExitStatus ==
    pc = "exit" =>
        /\ Completed => (exitCode = 0 /\ (data # <<>> => output # NoFile))
        /\ Interrupted => (exitCode # 0 /\ (data # <<>> => partial = data))
        /\ Fatal => exitCode # 0

\* C12: on each page find_selector is run over the card candidates once or
\* twice, twice exactly when the direct attempt returned fewer than 3
\* elements; the loop body then runs over every discovered element, so when
\* scrape_page returns every element the direct attempt found has been
\* processed, also when the attempt after the scroll found fewer or none.
C12_DirectElementsProcessed ==
    /\ (pc \in {"cards", "pause"} /\ page \notin failedPages) =>
          /\ lookups \in 1..2
          /\ lookups = 2 <=> Len(direct) < 3
    /\ (pc = "pause" /\ page \notin failedPages) =>
          /\ idx = Len(cards)
          /\ \A j \in 1..Len(direct) :
                \E k \in 1..idx : cards[k].pos = direct[j].pos

====
